---- MODULE Spec2Model ----
(***************************************************************************)
(* DeepVO: the epoch loop controller (Trainer.train / Trainer.validate of  *)
(* Trainer.py) and the curriculum scheduler (Curriculum of curriculum.py). *)
(*                                                                         *)
(* The network, the optimizer and the datasets are external objects.  The  *)
(* model keeps of them what the controller can drive or observe: the       *)
(* model's train/eval mode, whether its gradient buffers hold gradients,   *)
(* the condition of its recurrent state, the number of parameter updates,  *)
(* and for a dataset the end-of-sequence flag of each item.                 *)
(*                                                                         *)
(* A loss tensor is kept as the formal sum it holds: the sequence of its   *)
(* terms, in the order they were added.  A term names the error it stands  *)
(* for (the rotation or translation error of item idx in call number call, *)
(* a call of train or of validate as the field by tells, or the L2 norm of *)
(* the parameters) and its coefficient.  Two tensors                       *)
(* with the same terms are equal whatever the network predicts.            *)
(*                                                                         *)
(* Python indices are kept: the loop variable i runs from 0, and the item  *)
(* train_set[i] is the (i+1)-th element of the TLA+ sequence.              *)
(***************************************************************************)
EXTENDS Integers, Sequences, FiniteSets, TLC

(* ------------------------------ bounds --------------------------------- *)

\* longest dataset handed to one epoch
MaxLen == 2
\* largest args.trainBatch (0 stands for the non-positive window sizes)
MaxTrainBatch == 2
\* largest args.debugIters
MaxDebugIters == 2
\* args.nepochs; a Trainer is built in the last epoch or past it
NEpochs == 1
\* calls of train() and validate() made on one Trainer
MaxCalls == 2
\* Curriculum.step is not called once cur_seqlen has passed this length
MaxSeqLen == 24
\* largest loss handed to Curriculum.step, in thousandths
MaxLoss == 10

(* --------------------------- value domains ----------------------------- *)

\* Python's None for an optional number: <<>>, and <<v>> for the number v
None == <<>>
Some(v) == <<v>>
ValueOf(opt) == opt[1]

\* the datasets an epoch can be handed: every sequence of end-of-sequence
\* flags of length 0..MaxLen
DataSets == UNION {[1..n -> BOOLEAN] : n \in 0..MaxLen}

VARIABLES
    \* Trainer fields (Trainer.__init__)
    args,               \* [trainBatch, debug, debugIters, gradClip]
    maxEpochs, curEpoch,
    scaleFactor, weightRegularizer,
    loss_rot, loss_trans, loss,
    iters,
    \* external collaborators, as far as the controller drives them
    model,              \* [mode, grad, hidden, params]
    \* the running call
    pc,                 \* "idle" | "train" | "validate" | "raised"
    data,               \* the dataset of the running call
    numIters, i, elapsedBatches,
    traj_pred,          \* None or Some(rows), rows a sequence of item indices
    \* observations of the running (or last) call
    log,                \* one record per processed sample
    closed,             \* what the last iteration handed to backward, if it closed a window
    saved,              \* the trajectory files written by the call
    pre,                \* the Trainer's state when the call was entered
    last,               \* the running (or last) call: "train" | "validate"
    ret,                \* how it ended, or "running"
    calls,
    \* Curriculum fields (Curriculum.__init__)
    good_loss, min_frames, max_frames, current_loss, cur_seqlen,
    cur_exc,            \* the exception the last Curriculum.step ended with
    step_arg            \* the loss the last Curriculum.step was handed

trainerVars == <<args, maxEpochs, curEpoch, scaleFactor, weightRegularizer,
                 loss_rot, loss_trans, loss, iters, model, pc, data, numIters,
                 i, elapsedBatches, traj_pred, log, closed, saved, pre,
                 last, ret, calls>>
curriculumVars == <<good_loss, min_frames, max_frames, current_loss,
                    cur_seqlen, cur_exc, step_arg>>
vars == <<trainerVars, curriculumVars>>

(* ------------------------- external collaborators ---------------------- *)

\* The effect of one call on the model and the optimizer.
ApplyOp(m, op) ==
    CASE op = "train"     -> [m EXCEPT !.mode = "train"]
      [] op = "eval"      -> [m EXCEPT !.mode = "eval"]
      [] op = "forward"   -> [m EXCEPT !.hidden = "attached"]
      [] op = "backward"  -> [m EXCEPT !.grad = @ + 1]
      [] op = "step"      -> [m EXCEPT !.params = @ + 1]
      [] op = "detach"    -> [m EXCEPT !.hidden = "detached"]
      [] op = "zero_grad" -> [m EXCEPT !.grad = 0]
      [] op = "reset"     -> [m EXCEPT !.hidden = "reset"]
      [] OTHER            -> m

RECURSIVE ApplyOps(_, _)
ApplyOps(m, ops) ==
    IF ops = <<>> THEN m ELSE ApplyOps(ApplyOp(m, Head(ops)), Tail(ops))

\* sum of the L2 norms of the parameters, as they are after m.params updates
L2Reg(m, coef) ==
    [kind |-> "l2", coef |-> coef, call |-> 0, idx |-> m.params, by |-> "train"]

Count(ops, op) == Cardinality({k \in 1..Len(ops) : ops[k] = op})

(* ------------------------------ Trainer -------------------------------- *)

\* torch.zeros(1)
Zero == <<>>

\* the guard with the comparison off by one
MaxEpochsElapsed_OffByOne == curEpoch > maxEpochs

\* Trainer.train, the epoch guard
MaxEpochsElapsed == curEpoch >= maxEpochs

\* Trainer.train, number of iterations of the epoch
NumTrainIters(ds) == IF args.debug THEN args.debugIters ELSE Len(ds)

\* Trainer.validate, number of iterations of the epoch
NumValIters(ds) == IF args.debug THEN args.debugIters ELSE Len(ds)

\* the flag of the dataset, never forced
EffectiveEndOfSeq_NotForced(endOfSeq, idx, n) == endOfSeq

\* the flag forced one iteration late, which the loop never reaches
EffectiveEndOfSeq_OffByOne(endOfSeq, idx, n) ==
    IF args.debug /\ idx = n THEN TRUE ELSE endOfSeq

\* Trainer.train: the last debug iteration is forced to be an end of sequence
EffectiveEndOfSeq(endOfSeq, idx, n) ==
    IF args.debug /\ idx = n - 1 THEN TRUE ELSE endOfSeq

\* the test with a strict comparison
WindowCloses_Strict(eb, endOfSeq) == eb > args.trainBatch \/ endOfSeq

\* the test on the size alone
WindowCloses_SizeOnly(eb, endOfSeq) == eb >= args.trainBatch

\* the test on the end of sequence alone
WindowCloses_EosOnly(eb, endOfSeq) == endOfSeq

\* Trainer.train: the test that closes a window, on the incremented counter
WindowCloses(eb, endOfSeq) == eb >= args.trainBatch \/ endOfSeq

\* the terms a sample adds to the accumulators
RotTerm(call, idx) ==
    [kind |-> "rot", coef |-> scaleFactor, call |-> call, idx |-> idx,
     by |-> last]
TransTerm(call, idx) ==
    [kind |-> "trans", coef |-> 1, call |-> call, idx |-> idx, by |-> last]

\* Trainer.train: the elapsed counter after a window close
ElapsedAfterClose(eb) == 0

\* accumulators that keep their sum over a window close
ClearedLoss_Kept(acc) == acc

\* Trainer.train: an accumulator after a window close
ClearedLoss(acc) == Zero

\* Trainer.validate: an accumulator after an end-of-sequence sample
ValClearedLoss(acc) == Zero
TotalTerms(call, idx) == <<RotTerm(call, idx), TransTerm(call, idx)>>

\* Trainer.train: the scalar handed to backward
RegularizedLoss(l, m) ==
    IF weightRegularizer # None
    THEN <<L2Reg(m, ValueOf(weightRegularizer))>> \o l
    ELSE l

\* a close that updates the parameters before it computes the gradients
TrainCloseOps_StepFirst(endOfSeq) ==
    <<"step", "backward">>
    \o (IF args.gradClip # None THEN <<"clip">> ELSE <<>>)
    \o <<"detach", "zero_acc", "zero_grad">>
    \o (IF endOfSeq THEN <<"reset">> ELSE <<>>)

\* Trainer.train: the calls of a window close, in the order of the code
TrainCloseOps(endOfSeq) ==
    <<"backward">>
    \o (IF args.gradClip # None THEN <<"clip">> ELSE <<>>)
    \o <<"step", "detach", "zero_acc", "zero_grad">>
    \o (IF endOfSeq THEN <<"reset">> ELSE <<>>)

\* a flush that trains
ValFlushOps_Stepping == <<"savetxt", "backward", "step", "detach", "zero_acc">>

\* a flush that resets the recurrent state, as a training close does
ValFlushOps_Resetting == <<"savetxt", "detach", "zero_acc", "reset">>

\* Trainer.validate: the calls made at an end-of-sequence sample
ValFlushOps == <<"savetxt", "detach", "zero_acc">>

\* a buffer that keeps the newest row only
AppendRow_Overwriting(tp, idx) == Some(<<idx>>)

\* Trainer.validate: the trajectory buffer with the row of item idx appended
AppendRow(tp, idx) ==
    IF tp = None THEN Some(<<idx>>) ELSE Some(Append(ValueOf(tp), idx))

\* Trainer.validate: the trajectory buffer after it was written to a file
ClearedBuffer(tp) == None

\* the sequence id of item idx: sequences follow one another in a dataset,
\* each ended by its end-of-sequence item
SeqOf(ds, idx) == Cardinality({k \in 1..idx : ds[k]})

Snapshot ==
    [iters |-> iters, loss_rot |-> loss_rot, loss_trans |-> loss_trans,
     loss |-> loss, model |-> model]

\* the command lines: debugIters is read in debug mode only
ArgsSpace ==
    {a \in [trainBatch : 0..MaxTrainBatch,
            debug : BOOLEAN,
            debugIters : 0..MaxDebugIters,
            gradClip : {None, Some(1)}] : a.debug \/ a.debugIters = 0}

\* Trainer.__init__, for a command line of argSet
TrainerInitFrom(argSet) ==
    /\ args \in argSet
    /\ maxEpochs = NEpochs
    /\ curEpoch \in {NEpochs - 1, NEpochs}
    /\ scaleFactor \in {1, 2}
    /\ weightRegularizer \in {None, Some(1)}
    /\ loss_rot = Zero /\ loss_trans = Zero /\ loss = Zero
    /\ iters = 0
    \* a torch module is built in train mode; __init__ flushes its gradients
    /\ model = [mode |-> "train", grad |-> 0, hidden |-> "reset", params |-> 0]
    /\ pc = "idle"
    /\ data = <<>>
    /\ numIters = 0 /\ i = 0 /\ elapsedBatches = 0
    /\ traj_pred = None
    /\ log = <<>> /\ closed = None /\ saved = <<>>
    /\ pre = Snapshot
    /\ last = "none" /\ ret = "none"
    /\ calls = 0

TrainerInit == TrainerInitFrom(ArgsSpace)

\* Trainer.train, up to the loop
TrainCall(ds) ==
    /\ pc = "idle"
    /\ calls < MaxCalls
    /\ calls' = calls + 1
    /\ pre' = Snapshot
    /\ model' = ApplyOp(model, "train")
    /\ last' = "train"
    /\ log' = <<>> /\ closed' = None /\ saved' = <<>>
    /\ IF MaxEpochsElapsed
       THEN /\ ret' = "skipped"
            /\ UNCHANGED <<pc, data, numIters, i, elapsedBatches, iters>>
       ELSE /\ ret' = "running"
            /\ pc' = "train"
            /\ iters' = iters + 1
            /\ data' = ds
            /\ numIters' = NumTrainIters(ds)
            /\ elapsedBatches' = 0
            /\ i' = 0
    /\ UNCHANGED <<args, maxEpochs, curEpoch, scaleFactor, weightRegularizer,
                   loss_rot, loss_trans, loss, traj_pred>>
    /\ UNCHANGED curriculumVars

\* Trainer.train, one iteration of the loop
TrainIter ==
    /\ pc = "train"
    /\ i < numIters
    /\ i < Len(data)
    /\ LET endOfSeq == EffectiveEndOfSeq(data[i + 1], i, numIters)
           eb       == elapsedBatches + 1
           accRot   == Append(loss_rot, RotTerm(calls, i))
           accTrans == Append(loss_trans, TransTerm(calls, i))
           acc      == loss \o TotalTerms(calls, i)
           fwd      == ApplyOp(model, "forward")
       IN  IF WindowCloses(eb, endOfSeq)
           THEN /\ elapsedBatches' = ElapsedAfterClose(eb)
                /\ closed' = Some([rot |-> accRot, trans |-> accTrans,
                                   loss |-> acc,
                                   backward |-> RegularizedLoss(acc, fwd)])
                /\ model' = ApplyOps(fwd, TrainCloseOps(endOfSeq))
                /\ loss_rot' = ClearedLoss(accRot)
                /\ loss_trans' = ClearedLoss(accTrans)
                /\ loss' = ClearedLoss(acc)
                /\ log' = Append(log, [eos |-> data[i + 1], eff |-> endOfSeq,
                                       cnt |-> eb,
                                       ops |-> <<"forward">> \o TrainCloseOps(endOfSeq)])
           ELSE /\ elapsedBatches' = eb
                /\ closed' = None
                /\ model' = fwd
                /\ loss_rot' = accRot /\ loss_trans' = accTrans /\ loss' = acc
                /\ log' = Append(log, [eos |-> data[i + 1], eff |-> endOfSeq,
                                       cnt |-> eb, ops |-> <<"forward">>])
    /\ i' = i + 1
    /\ UNCHANGED <<args, maxEpochs, curEpoch, scaleFactor, weightRegularizer,
                   iters, pc, data, numIters, traj_pred, saved, pre, last, ret,
                   calls>>
    /\ UNCHANGED curriculumVars

\* Trainer.train: train_set[i] past the end of the dataset (debug mode only)
TrainIndexError ==
    /\ pc = "train"
    /\ i < numIters
    /\ i >= Len(data)
    /\ pc' = "raised"
    /\ ret' = "IndexError"
    /\ UNCHANGED <<args, maxEpochs, curEpoch, scaleFactor, weightRegularizer,
                   loss_rot, loss_trans, loss, iters, model, data, numIters,
                   i, elapsedBatches, traj_pred, log, closed, saved, pre,
                   last, calls>>
    /\ UNCHANGED curriculumVars

\* Trainer.train: the loop is exhausted, the loss logs are returned
TrainReturn ==
    /\ pc = "train"
    /\ i >= numIters
    /\ pc' = "idle"
    /\ ret' = "returned"
    /\ UNCHANGED <<args, maxEpochs, curEpoch, scaleFactor, weightRegularizer,
                   loss_rot, loss_trans, loss, iters, model, data, numIters,
                   i, elapsedBatches, traj_pred, log, closed, saved, pre,
                   last, calls>>
    /\ UNCHANGED curriculumVars

\* Trainer.validate, up to the loop
ValidateCall(ds) ==
    /\ pc = "idle"
    /\ calls < MaxCalls
    /\ calls' = calls + 1
    /\ pre' = Snapshot
    /\ model' = ApplyOp(model, "eval")
    /\ last' = "validate"
    /\ traj_pred' = None
    /\ log' = <<>> /\ closed' = None /\ saved' = <<>>
    /\ ret' = "running"
    /\ pc' = "validate"
    /\ data' = ds
    /\ numIters' = NumValIters(ds)
    /\ i' = 0
    /\ UNCHANGED <<args, maxEpochs, curEpoch, scaleFactor, weightRegularizer,
                   loss_rot, loss_trans, loss, iters, elapsedBatches>>
    /\ UNCHANGED curriculumVars

\* Trainer.validate, one iteration of the loop
ValidateIter ==
    /\ pc = "validate"
    /\ i < numIters
    /\ i < Len(data)
    /\ LET endOfSeq == data[i + 1]
           rows     == AppendRow(traj_pred, i)
           fwd      == ApplyOp(model, "forward")
       IN  IF endOfSeq
           THEN /\ saved' = Append(saved, [seq |-> SeqOf(data, i), epoch |-> curEpoch,
                                           at |-> i, rows |-> ValueOf(rows)])
                /\ traj_pred' = ClearedBuffer(rows)
                /\ model' = ApplyOps(fwd, ValFlushOps)
                /\ loss_rot' = ValClearedLoss(Append(loss_rot, RotTerm(calls, i)))
                /\ loss_trans' = ValClearedLoss(Append(loss_trans, TransTerm(calls, i)))
                /\ loss' = ValClearedLoss(loss \o TotalTerms(calls, i))
                /\ log' = Append(log, [eos |-> endOfSeq, eff |-> endOfSeq, cnt |-> 0,
                                       ops |-> <<"forward">> \o ValFlushOps])
           ELSE /\ saved' = saved
                /\ traj_pred' = rows
                /\ model' = fwd
                /\ loss_rot' = Append(loss_rot, RotTerm(calls, i))
                /\ loss_trans' = Append(loss_trans, TransTerm(calls, i))
                /\ loss' = loss \o TotalTerms(calls, i)
                /\ log' = Append(log, [eos |-> endOfSeq, eff |-> endOfSeq, cnt |-> 0,
                                       ops |-> <<"forward">>])
    /\ i' = i + 1
    /\ closed' = None
    /\ UNCHANGED <<args, maxEpochs, curEpoch, scaleFactor, weightRegularizer,
                   iters, pc, data, numIters, elapsedBatches, pre, last, ret,
                   calls>>
    /\ UNCHANGED curriculumVars

\* Trainer.validate: val_set[i] past the end of the dataset (debug mode only)
ValidateIndexError ==
    /\ pc = "validate"
    /\ i < numIters
    /\ i >= Len(data)
    /\ pc' = "raised"
    /\ ret' = "IndexError"
    /\ UNCHANGED <<args, maxEpochs, curEpoch, scaleFactor, weightRegularizer,
                   loss_rot, loss_trans, loss, iters, model, data, numIters,
                   i, elapsedBatches, traj_pred, log, closed, saved, pre,
                   last, calls>>
    /\ UNCHANGED curriculumVars

\* Trainer.validate: the loop is exhausted, the loss logs are returned
ValidateReturn ==
    /\ pc = "validate"
    /\ i >= numIters
    /\ pc' = "idle"
    /\ ret' = "returned"
    /\ UNCHANGED <<args, maxEpochs, curEpoch, scaleFactor, weightRegularizer,
                   loss_rot, loss_trans, loss, iters, model, data, numIters,
                   i, elapsedBatches, traj_pred, log, closed, saved, pre,
                   last, calls>>
    /\ UNCHANGED curriculumVars

(* ----------------------------- Curriculum ------------------------------ *)

\* losses are counted in thousandths: good_loss = 9 is the default 9e-3

\* the names bound in the module curriculum.py; a bare name in a method
\* is looked up among them (and the builtins, which hold none of these)
ModuleGlobals == {"np", "Curriculum"}
Resolves(name) == name \in ModuleGlobals

\* int(np.ceil(n * 1.5))
CeilOneAndHalf(n) == (3 * n + 1) \div 2

\* np.random.randint(low, high): the integers of [low, high)
RandInt(low, high) == {k \in low..(high - 1) : TRUE}

\* the growth of cur_seqlen in step
Grown(len, r) == len + r

\* a step that records the loss it was handed
CurrentLossAfterStep_Recorded(cur_loss) == cur_loss

\* Curriculum.step: current_loss after a step, which never assigns it
CurrentLossAfterStep(cur_loss) == current_loss

\* np.inf: above every loss a step is handed
Inf == MaxLoss + 1

\* Curriculum.__init__
CurriculumInit ==
    /\ good_loss \in {5, 9}
    /\ min_frames \in {0, 1, 2, 5}
    /\ max_frames \in {8, 1095}
    /\ current_loss = Inf
    /\ cur_seqlen = min_frames
    /\ cur_exc = "none"
    /\ step_arg = None

\* Curriculum.step
CurriculumStep(cur_loss) ==
    /\ cur_seqlen <= MaxSeqLen
    /\ step_arg' = Some(cur_loss)
    /\ IF cur_loss <= good_loss
       THEN IF RandInt(cur_seqlen, CeilOneAndHalf(cur_seqlen)) = {}
            THEN \* randint raises on an empty range, before the assignment
                 /\ cur_exc' = "ValueError"
                 /\ UNCHANGED cur_seqlen
            ELSE \E r \in RandInt(cur_seqlen, CeilOneAndHalf(cur_seqlen)) :
                    LET grown == Grown(cur_seqlen, r)
                    IN  IF Resolves("max_frames")
                        THEN /\ cur_seqlen' = IF grown > max_frames
                                              THEN max_frames ELSE grown
                             /\ cur_exc' = "none"
                        ELSE \* the comparison raises, after the assignment
                             /\ cur_seqlen' = grown
                             /\ cur_exc' = "NameError"
       ELSE /\ cur_exc' = "none"
            /\ UNCHANGED cur_seqlen
    /\ current_loss' = CurrentLossAfterStep(cur_loss)
    /\ UNCHANGED <<good_loss, min_frames, max_frames>>
    /\ UNCHANGED trainerVars

\* a Trainer that is never called, beside the Curriculum under study
TrainerAtRest ==
    /\ TrainerInit
    /\ args = [trainBatch |-> 1, debug |-> FALSE, debugIters |-> 0, gradClip |-> None]
    /\ curEpoch = NEpochs - 1 /\ scaleFactor = 1 /\ weightRegularizer = None

\* a Curriculum with the defaults of its constructor, never stepped
CurriculumAtRest ==
    /\ CurriculumInit
    /\ good_loss = 9 /\ min_frames = 5 /\ max_frames = 1095

(* --------------------------- specifications ---------------------------- *)

Init == TrainerInit /\ CurriculumAtRest

Next ==
    \/ \E ds \in DataSets : TrainCall(ds)
    \/ TrainIter
    \/ TrainIndexError
    \/ TrainReturn
    \/ \E ds \in DataSets : ValidateCall(ds)
    \/ ValidateIter
    \/ ValidateIndexError
    \/ ValidateReturn

\* one Trainer, called any number of times up to MaxCalls
Spec == Init /\ [][Next]_vars

InitCurriculum == TrainerAtRest /\ CurriculumInit

NextCurriculum == \E cur_loss \in 0..MaxLoss : CurriculumStep(cur_loss)

\* one Curriculum, stepped with arbitrary losses
SpecCurriculum == InitCurriculum /\ [][NextCurriculum]_vars

\* the scenario of five samples, the last one ending the sequence, under a
\* window of three samples in normal mode
ScenarioTrainSet == <<FALSE, FALSE, FALSE, FALSE, TRUE>>
ScenarioArgs ==
    {a \in [trainBatch : {3},
            debug : {FALSE},
            debugIters : {0},
            gradClip : {None, Some(1)}] : TRUE}

InitScenario == TrainerInitFrom(ScenarioArgs) /\ CurriculumAtRest

NextScenario ==
    \/ TrainCall(ScenarioTrainSet)
    \/ TrainIter
    \/ TrainReturn
    \/ \E ds \in DataSets : ValidateCall(ds)
    \/ ValidateIter
    \/ ValidateReturn

SpecScenario == InitScenario /\ [][NextScenario]_vars

(* ------------------------------- claims -------------------------------- *)

\* The windows of a training epoch, recomputed from the flags the dataset
\* yielded: sample k (from 1) of the call, its effective flag, the elapsed
\* counter as incremented for it, and whether it closes a window.
RefEff(k) == log[k].eos \/ (args.debug /\ k = args.debugIters)

RECURSIVE RefCnt(_), RefCloses(_)
RefCnt(k) == IF k = 1 \/ RefCloses(k - 1) THEN 1 ELSE RefCnt(k - 1) + 1
RefCloses(k) == RefCnt(k) >= args.trainBatch \/ RefEff(k)

RefClosed == {k \in DOMAIN log : RefCloses(k)}

Calls(k, op) == Count(log[k].ops, op)

InTrain == last = "train" /\ ret # "skipped"
InValidate == last = "validate"

\* C1: in a training epoch the optimizer steps once at every sample that
\* closes a window (incremented counter >= trainBatch, or effective end of
\* sequence) and at no other sample, so the steps of the epoch are as many
\* as the windows closed.
C1_StepsAreWindowCloses ==
    InTrain =>
        /\ \A k \in DOMAIN log : Calls(k, "step") = IF RefCloses(k) THEN 1 ELSE 0
        /\ model.params - pre.model.params = Cardinality(RefClosed)

\* an epoch that returned after a sample that closed no window and a
\* window closed by its size alone
C1_Witness ==
    /\ InTrain /\ ret = "returned"
    /\ \E k \in DOMAIN log : ~RefCloses(k)
    /\ \E k \in DOMAIN log : RefCloses(k) /\ ~RefEff(k)

\* C2 as stated: the recurrent state is reset at a sample exactly when the
\* sample closes a window and the flag the dataset yielded for it is true.
C2_ResetIffSourceFlag ==
    InTrain =>
        \A k \in DOMAIN log :
            (Calls(k, "reset") > 0) <=> (Calls(k, "step") > 0 /\ log[k].eos)

\* C2 amended: the recurrent state is reset (once) at a sample exactly when
\* the sample closes a window and its effective flag is true: the flag of
\* the dataset, or in debug mode the sample being the last iteration.
C2_ResetIffEffectiveFlag ==
    InTrain =>
        \A k \in DOMAIN log :
            Calls(k, "reset") = IF RefCloses(k) /\ RefEff(k) THEN 1 ELSE 0

\* a debug epoch reset the recurrent state at a sample the dataset did not
\* flag, and a sample flagged by the dataset was reset as well
C2_Witness ==
    /\ InTrain /\ args.debug
    /\ \E k \in DOMAIN log : ~log[k].eos /\ Calls(k, "reset") = 1
    /\ \E k \in DOMAIN log : log[k].eos /\ Calls(k, "reset") = 1

\* C3 as stated: in debug mode a train() call that passes the guard has
\* closed a window and stepped the optimizer when it returns, whatever
\* debugIters is.
C3_DebugAlwaysSteps ==
    (InTrain /\ ret = "returned" /\ args.debug) =>
        /\ model.params > pre.model.params
        /\ \E k \in DOMAIN log : Calls(k, "step") > 0

\* C3 amended: the same, for debugIters >= 1.
C3_DebugStepsIfAnyIteration ==
    (InTrain /\ ret = "returned" /\ args.debug /\ args.debugIters >= 1) =>
        /\ model.params > pre.model.params
        /\ \E k \in DOMAIN log : Calls(k, "step") > 0

\* a debug epoch returned whose only close is the forced one
C3_Witness ==
    /\ InTrain /\ ret = "returned" /\ args.debug /\ args.debugIters >= 1
    /\ \A k \in DOMAIN log : ~log[k].eos
    /\ Len(log) < args.trainBatch
    /\ model.params = pre.model.params + 1

\* C4: a validation epoch never calls backward nor the optimizer's step,
\* and leaves the parameters and the gradient buffers as they were.
C4_ValidateNeverSteps ==
    InValidate =>
        /\ \A k \in DOMAIN log : Calls(k, "step") = 0 /\ Calls(k, "backward") = 0
        /\ model.params = pre.model.params
        /\ model.grad = pre.model.grad

\* a validation epoch returned after a flush and a sample that did not flush
C4_Witness ==
    /\ InValidate /\ ret = "returned"
    /\ \E k \in DOMAIN log : log[k].eos
    /\ \E k \in DOMAIN log : ~log[k].eos

\* the least integer that is at least one and a half times n
RefCeil(n) == CHOOSE m \in 0..(2 * n + 1) : 2 * m >= 3 * n /\ 2 * (m - 1) < 3 * n
RefMin(a, b) == IF a <= b THEN a ELSE b

\* C5: a step with a loss of at most good_loss leaves cur_seqlen between
\* its old value and min(max_frames, ceil(1.5 * old value)); a step with a
\* greater loss leaves it unchanged.
C5_StepWithinBounds ==
    [][step_arg' # None =>
          IF ValueOf(step_arg') <= good_loss
          THEN /\ cur_seqlen <= cur_seqlen'
               /\ cur_seqlen' <= RefMin(max_frames, RefCeil(cur_seqlen))
          ELSE cur_seqlen' = cur_seqlen]_vars

\* C6: from one step to the next cur_seqlen never decreases, and when
\* min_frames <= max_frames it stays within min_frames..max_frames.
C6_BoundedAndMonotone ==
    [][/\ cur_seqlen <= cur_seqlen'
       /\ min_frames <= max_frames =>
              (min_frames <= cur_seqlen' /\ cur_seqlen' <= max_frames)]_vars

\* the terms of item idx (from 0) of the running call
RefRot(idx) ==
    [kind |-> "rot", coef |-> scaleFactor, call |-> calls, idx |-> idx,
     by |-> "train"]
RefTrans(idx) ==
    [kind |-> "trans", coef |-> 1, call |-> calls, idx |-> idx, by |-> "train"]

\* a formal sum as the bag of its terms
BagOf(sum) ==
    [t \in {sum[k] : k \in DOMAIN sum} |->
        Cardinality({k \in DOMAIN sum : sum[k] = t})]

RefMax(S) == CHOOSE m \in S : \A n \in S : n <= m

\* the first sample of the window that sample k of the call belongs to
RefWindowStart(k) ==
    LET before == {j \in 1..(k - 1) : Calls(j, "step") > 0}
    IN  IF before = {} THEN 1 ELSE RefMax(before) + 1

\* C7: when a training window closes, the accumulated rotation loss is
\* scaleFactor times the rotation errors of the samples of the window and
\* of no other sample, the accumulated translation loss is the sum of
\* their translation errors, and the combined loss, before regularization,
\* is the sum of the two.
C7_WindowSums ==
    (InTrain /\ closed # None) =>
        LET k     == Len(log)
            first == RefWindowStart(k)
            c     == ValueOf(closed)
        IN  /\ c.rot = [j \in 1..(k - first + 1) |-> RefRot(first + j - 2)]
            /\ c.trans = [j \in 1..(k - first + 1) |-> RefTrans(first + j - 2)]
            /\ BagOf(c.loss) = BagOf(c.rot \o c.trans)

\* C8: every trajectory file a validation epoch writes is written at an
\* end-of-sequence sample, one file per such sample, under the epoch of
\* the Trainer and the sequence id of the sample, and holds the rows of
\* the samples after the previous end-of-sequence sample (or from the
\* first sample of the epoch) up to this one, in order.
C8_FileRows ==
    InValidate =>
        /\ Len(saved) = Cardinality({k \in DOMAIN log : log[k].eos})
        /\ \A n \in DOMAIN saved :
              LET at     == saved[n].at
                  ended  == {k \in 1..at : log[k].eos}
                  first  == IF ended = {} THEN 0 ELSE RefMax(ended)
              IN  /\ log[at + 1].eos
                  /\ Cardinality(ended) = n - 1
                  /\ saved[n].rows = [j \in 1..(at - first + 1) |-> first + j - 1]
                  /\ saved[n].epoch = curEpoch
                  /\ saved[n].seq = Cardinality(ended)

\* a validation epoch wrote a second file, which holds no row of the first
C8_Witness ==
    /\ InValidate
    /\ Len(saved) >= 2
    /\ Len(saved[2].rows) < saved[2].at + 1

\* C9 as stated: a train() call made with curEpoch >= maxEpochs returns at
\* once: no sample is processed, nothing is written, and iters, the loss
\* accumulators and the whole state of the model, its mode included, are
\* as they were before the call.
C9_SkippedCallChangesNothing ==
    (last = "train" /\ curEpoch >= maxEpochs) =>
        /\ ret = "skipped" /\ pc = "idle"
        /\ log = <<>> /\ saved = <<>> /\ closed = None
        /\ Snapshot = pre

\* C9 amended: the same, except for the mode of the model: the call has
\* switched the model to train mode before it tests the guard.
C9_SkippedCallOnlySetsTrainMode ==
    (last = "train" /\ curEpoch >= maxEpochs) =>
        /\ ret = "skipped" /\ pc = "idle"
        /\ log = <<>> /\ saved = <<>> /\ closed = None
        /\ Snapshot = [pre EXCEPT !.model.mode = "train"]

\* a skipped train() call made on a model that validate() left in eval mode
C9_Witness ==
    /\ last = "train" /\ ret = "skipped"
    /\ pre.model.mode = "eval"

\* C10: in normal mode with a window of 3, an epoch over five samples
\* flagged F,F,F,F,T closes its windows at sample 3, by size, and at sample
\* 5, by end of sequence, and nowhere else: 2 optimizer steps, a detach at
\* both closes, a reset at sample 5 only.
C10_Scenario ==
    (/\ InTrain /\ ret = "returned"
     /\ ~args.debug /\ args.trainBatch = 3
     /\ [k \in DOMAIN log |-> log[k].eos] = ScenarioTrainSet) =>
        /\ {k \in DOMAIN log : Calls(k, "step") > 0} = {3, 5}
        /\ log[3].cnt = 3 /\ ~log[3].eff
        /\ log[5].eff
        /\ model.params - pre.model.params = 2
        /\ \A k \in {3, 5} : Calls(k, "step") = 1 /\ Calls(k, "detach") = 1
        /\ {k \in DOMAIN log : Calls(k, "detach") > 0} = {3, 5}
        /\ {k \in DOMAIN log : Calls(k, "reset") > 0} = {5}

\* the scenario epoch returned, as the second call made on the Trainer
C10_Witness ==
    /\ InTrain /\ ret = "returned" /\ calls = 2
    /\ ~args.debug /\ args.trainBatch = 3
    /\ [k \in DOMAIN log |-> log[k].eos] = ScenarioTrainSet

\* C11: no Trainer whose window size is not positive is ever inside the
\* training loop: such a command line is refused when the Trainer is built.
C11_NoNonPositiveWindowInLoop == pc = "train" => args.trainBatch > 0

\* C12: a step handed a loss of at most good_loss ends without an error,
\* with cur_seqlen clamped to the max_frames of the instance; no step ends
\* in an error after it changed cur_seqlen.  Stated for the lengths from 1
\* on, for which randint has a number to draw.
C12_StepCompletesAndClamps ==
    [][(step_arg' # None /\ cur_seqlen >= 1) =>
          /\ cur_seqlen' # cur_seqlen => cur_exc' = "none"
          /\ ValueOf(step_arg') <= good_loss =>
                 (cur_exc' = "none" /\ cur_seqlen' <= max_frames)]_vars

\* the samples processed since the last window close of the call
RefOpen ==
    LET closes == {k \in DOMAIN log : Calls(k, "step") > 0}
    IN  IF closes = {} THEN Len(log) ELSE Len(log) - RefMax(closes)

\* C13: a sample that closes a training window makes, after its forward,
\* exactly these calls in this order: backward on the accumulated loss (to
\* which the L2 term was added first, if a regularizer is set), gradient
\* clipping if set, the optimizer's step, detach of the recurrent state,
\* zeroing of the accumulators, zeroing of the gradient buffers, and reset
\* of the recurrent state if the sample ends a sequence; any other sample
\* makes its forward only.  So the gradient buffers are zero between two
\* iterations, and a reset follows the detach of the same close.
C13_CloseOrder ==
    InTrain =>
        /\ \A k \in DOMAIN log :
              log[k].ops =
                  IF RefCloses(k)
                  THEN <<"forward", "backward">>
                       \o (IF args.gradClip # None THEN <<"clip">> ELSE <<>>)
                       \o <<"step", "detach", "zero_acc", "zero_grad">>
                       \o (IF RefEff(k) THEN <<"reset">> ELSE <<>>)
                  ELSE <<"forward">>
        /\ model.grad = 0
        /\ model.params - pre.model.params = Cardinality(RefClosed)
        /\ Len(log) > 0 =>
              model.hidden = IF ~RefCloses(Len(log)) THEN "attached"
                             ELSE IF RefEff(Len(log)) THEN "reset"
                             ELSE "detached"
        /\ closed # None =>
              LET c == ValueOf(closed)
              IN  IF weightRegularizer # None
                  THEN /\ Head(c.backward).kind = "l2"
                       /\ Head(c.backward).coef = ValueOf(weightRegularizer)
                       /\ Tail(c.backward) = c.loss
                  ELSE c.backward = c.loss

\* a window closed at an end of sequence, with clipping and regularizer
\* set, after a sample that closed none
C13_Witness ==
    /\ InTrain /\ Len(log) >= 2
    /\ ~RefCloses(1)
    /\ RefCloses(Len(log)) /\ RefEff(Len(log))
    /\ args.gradClip # None /\ weightRegularizer # None
    /\ closed # None

\* C14: with trainBatch >= 1 every closed window holds at least 1 and at
\* most trainBatch consecutive samples and is handed to backward exactly
\* once, and between two iterations the elapsed counter is the number of
\* samples since the last close, at least 0 and less than trainBatch.
C14_WindowSizes ==
    (InTrain /\ args.trainBatch >= 1) =>
        /\ \A k \in DOMAIN log :
              Calls(k, "step") > 0 =>
                  /\ k - RefWindowStart(k) + 1 >= 1
                  /\ k - RefWindowStart(k) + 1 <= args.trainBatch
                  /\ log[k].cnt = k - RefWindowStart(k) + 1
                  /\ Calls(k, "backward") = 1
        /\ \A k \in DOMAIN log : Calls(k, "step") = 0 => Calls(k, "backward") = 0
        /\ elapsedBatches = RefOpen
        /\ 0 <= elapsedBatches /\ elapsedBatches < args.trainBatch

\* a window of two samples closed by its size, under trainBatch = 2
C14_Witness ==
    /\ InTrain /\ args.trainBatch = 2
    /\ \E k \in DOMAIN log :
          Calls(k, "step") > 0 /\ ~log[k].eff /\ RefWindowStart(k) = k - 1

\* C15: after an iteration that closed a training window, the three
\* accumulators are zero: the next sample starts from zero sums.
C15_AccumulatorsZeroAfterClose ==
    (InTrain /\ Len(log) > 0 /\ Calls(Len(log), "step") > 0) =>
        (loss_rot = Zero /\ loss_trans = Zero /\ loss = Zero)

\* a window closed with a further sample to come, in an epoch entered
\* with sums left by the call before it
C15_Witness ==
    /\ InTrain /\ pc = "train" /\ i < numIters /\ i < Len(data)
    /\ Len(log) > 0 /\ Calls(Len(log), "step") > 0
    /\ pre.loss # Zero

\* C16: in a validation epoch a sample flagged end of sequence, and no
\* other sample, writes the trajectory buffer and clears it, detaches the
\* recurrent state and resets the three accumulators to zero, whatever
\* trainBatch is; the recurrent state is never reset.
C16_FlushAtEndOfSeqOnly ==
    InValidate =>
        /\ \A k \in DOMAIN log :
              log[k].ops = IF log[k].eos
                           THEN <<"forward", "savetxt", "detach", "zero_acc">>
                           ELSE <<"forward">>
        /\ Len(saved) = Cardinality({k \in DOMAIN log : log[k].eos})
        /\ Len(log) > 0 =>
              IF log[Len(log)].eos
              THEN /\ traj_pred = None
                   /\ loss_rot = Zero /\ loss_trans = Zero /\ loss = Zero
                   /\ model.hidden = "detached"
                   /\ saved[Len(saved)].at = Len(log) - 1
              ELSE /\ traj_pred # None
                   /\ loss_rot # Zero /\ loss_trans # Zero /\ loss # Zero
                   /\ model.hidden = "attached"

\* a validation epoch under trainBatch = 1 that passed a sample without a
\* flush and then flushed at an end of sequence
C16_Witness ==
    /\ InValidate /\ args.trainBatch = 1
    /\ Len(log) = 2 /\ ~log[1].eos /\ log[2].eos
    /\ Len(saved) = 1 /\ Len(saved[1].rows) = 2

\* C17: a step of the curriculum leaves good_loss, min_frames, max_frames
\* and current_loss as they were, whatever the loss and however it ends.
C17_StepMutatesLengthOnly ==
    [][/\ good_loss' = good_loss
       /\ min_frames' = min_frames
       /\ max_frames' = max_frames
       /\ current_loss' = current_loss]_vars

\* a step grew cur_seqlen
C17_Witness == step_arg # None /\ cur_seqlen > min_frames

\* C18: when a train() call that passed the guard returns, the
\* three accumulators are zero and the elapsed counter is 0.
C18_NothingLeftAtReturn ==
    (InTrain /\ ret = "returned") =>
        /\ loss_rot = Zero /\ loss_trans = Zero /\ loss = Zero
        /\ elapsedBatches = 0

\* C19: no loss added by a validation epoch is part of the scalar a
\* training window close hands to backward.
C19_NoValidationLossInBackward ==
    (InTrain /\ closed # None) =>
        \A k \in DOMAIN ValueOf(closed).backward :
            ValueOf(closed).backward[k].by # "validate"

\* C20: when validate() returns, the trajectory buffer is empty:
\* the row of every sample it processed was written to a file.
C20_BufferEmptyAtReturn ==
    (InValidate /\ ret = "returned") => traj_pred = None

====
